---- MODULE Spec2Model ----
(***************************************************************************)
(* Model of the SolarLandscaping backend: the S3 object-store client, the  *)
(* read-modify-write append of submit_subscriber, and the zip-to-utility   *)
(* cache behind get_utility_company / clear_utility_cache.                 *)
(*                                                                         *)
(* JSON values are modelled as Python sees them after json.loads:          *)
(*   [t |-> "list", elems |-> <<a1, ..., an>>, a |-> ""]   a list          *)
(*   [t |-> "atom", elems |-> <<>>,           a |-> tok]   anything else   *)
(* where an atom is named by its JSON text (one token).  A stored object   *)
(* is its text, a sequence of tokens, so that json.dumps and json.loads    *)
(* are real conversions.  Lists hold atoms only (no nested arrays).        *)
(***************************************************************************)
EXTENDS Integers, Sequences, FiniteSets, TLC

\* ------------------------------------------------------------- bounds
NumHandlers == 3
NumWorkers == 2
MaxCalls == 2
MaxRequests == 3
MaxValidations == 2

Handlers == 1..NumHandlers
Workers == 1..NumWorkers

\* Each request handler runs on the event loop of one server process.
WorkerOf(h) == ((h - 1) % NumWorkers) + 1

\* ------------------------------------------------------------- JSON
\* Submission records built by submit_subscriber (non-empty dicts).
Items == {"{r1}", "{r2}"}

\* Values Python treats as false: {}, 0, "", None, False (and the list []).
FalsyAtoms == {"{}", "0", "\"\"", "null", "false"}

\* Contents of the utilities object: dicts from zip code to utility record.
UtilityBlobs == {"{u1}", "{u2}"}

Atoms == Items \cup FalsyAtoms \cup UtilityBlobs \cup {"\"s\"", "7", "true"}

PyList(s) == [t |-> "list", elems |-> s, a |-> ""]
PyAtom(x) == [t |-> "atom", elems |-> <<>>, a |-> x]

\* isinstance(v, list)
IsList(v) == v.t = "list"

\* Python truth value of a decoded JSON value (`not existing_data`).
Truthy(v) == IF IsList(v) THEN Len(v.elems) > 0 ELSE v.a \notin FalsyAtoms

RECURSIVE JoinComma(_)
JoinComma(s) ==
    IF Len(s) = 0 THEN <<>>
    ELSE IF Len(s) = 1 THEN <<s[1]>>
    ELSE <<s[1], ",">> \o JoinComma(Tail(s))

\* json.dumps(data): the text of a value.
Dumps(v) == IF IsList(v) THEN <<"[">> \o JoinComma(v.elems) \o <<"]">> ELSE <<v.a>>

\* The text between the brackets is element (, element)*.
WellFormedInner(s) ==
    /\ Len(s) % 2 = 1
    /\ \A i \in 1..Len(s) : IF i % 2 = 1 THEN s[i] \in Atoms ELSE s[i] = ","

InnerElems(s) == [i \in 1..((Len(s) + 1) \div 2) |-> s[2 * i - 1]]

\* json.loads(content): [ok, val]; ok = FALSE is json.JSONDecodeError.
Loads(body) ==
    IF Len(body) = 1 /\ body[1] \in Atoms
        THEN [ok |-> TRUE, val |-> PyAtom(body[1])]
    ELSE IF Len(body) = 2 /\ body[1] = "[" /\ body[2] = "]"
        THEN [ok |-> TRUE, val |-> PyList(<<>>)]
    ELSE IF /\ Len(body) >= 3
            /\ body[1] = "["
            /\ body[Len(body)] = "]"
            /\ WellFormedInner(SubSeq(body, 2, Len(body) - 1))
        THEN [ok |-> TRUE, val |-> PyList(InnerElems(SubSeq(body, 2, Len(body) - 1)))]
    ELSE [ok |-> FALSE, val |-> PyAtom("null")]

\* ------------------------------------------------------------- store
\* An object of the bucket: absent, or a body of text.
Absent == [exists |-> FALSE, body |-> <<>>]
Object(body) == [exists |-> TRUE, body |-> body]

\* Outcomes of one call to S3 besides the answer: a ClientError with a code
\* other than NoSuchKey, or a botocore error that is not a ClientError.
Faults == {"none", "AccessDenied", "EndpointConnectionError"}

NoError == [kind |-> "none", msg |-> <<>>]
Raised(kind, msg) == [kind |-> kind, msg |-> msg]

\* Variants of ReadJsonFile: every ClientError taken as a missing file; a
\* missing file raised as an error.
ReadJsonFileSwallowsClientError(blob, fault) ==
    IF fault = "EndpointConnectionError"
        THEN [ok |-> FALSE, val |-> PyAtom("null"),
              err |-> Raised("EndpointConnectionError", <<"EndpointConnectionError">>)]
    ELSE IF fault = "AccessDenied" \/ ~blob.exists
        THEN [ok |-> TRUE, val |-> PyAtom("{}"), err |-> NoError]
    ELSE IF Loads(blob.body).ok
        THEN [ok |-> TRUE, val |-> Loads(blob.body).val, err |-> NoError]
    ELSE [ok |-> FALSE, val |-> PyAtom("null"),
          err |-> Raised("Exception", <<"Invalid JSON in S3 file: ", "JSONDecodeError">>)]

ReadJsonFileRaisesOnMissing(blob, fault) ==
    IF fault = "EndpointConnectionError"
        THEN [ok |-> FALSE, val |-> PyAtom("null"),
              err |-> Raised("EndpointConnectionError", <<"EndpointConnectionError">>)]
    ELSE IF fault = "AccessDenied"
        THEN [ok |-> FALSE, val |-> PyAtom("null"),
              err |-> Raised("Exception", <<"Failed to read file from S3: ", "AccessDenied">>)]
    ELSE IF ~blob.exists
        THEN [ok |-> FALSE, val |-> PyAtom("null"),
              err |-> Raised("Exception", <<"Failed to read file from S3: ", "NoSuchKey">>)]
    ELSE IF Loads(blob.body).ok
        THEN [ok |-> TRUE, val |-> Loads(blob.body).val, err |-> NoError]
    ELSE [ok |-> FALSE, val |-> PyAtom("null"),
          err |-> Raised("Exception", <<"Invalid JSON in S3 file: ", "JSONDecodeError">>)]

\* Variant of ReadJsonFile: a body that is not JSON read as the empty
\* structure.
ReadJsonFileInvalidAsEmpty(blob, fault) ==
    IF fault = "EndpointConnectionError"
        THEN [ok |-> FALSE, val |-> PyAtom("null"),
              err |-> Raised("EndpointConnectionError", <<"EndpointConnectionError">>)]
    ELSE IF fault = "AccessDenied"
        THEN [ok |-> FALSE, val |-> PyAtom("null"),
              err |-> Raised("Exception", <<"Failed to read file from S3: ", "AccessDenied">>)]
    ELSE IF ~blob.exists \/ ~Loads(blob.body).ok
        THEN [ok |-> TRUE, val |-> PyAtom("{}"), err |-> NoError]
    ELSE [ok |-> TRUE, val |-> Loads(blob.body).val, err |-> NoError]

\* S3Service.read_json_file: [ok, val, err].
ReadJsonFile(blob, fault) ==
    IF fault = "EndpointConnectionError"
        THEN [ok |-> FALSE, val |-> PyAtom("null"),
              err |-> Raised("EndpointConnectionError", <<"EndpointConnectionError">>)]
    ELSE IF fault = "AccessDenied"
        THEN [ok |-> FALSE, val |-> PyAtom("null"),
              err |-> Raised("Exception", <<"Failed to read file from S3: ", "AccessDenied">>)]
    ELSE IF ~blob.exists
        THEN [ok |-> TRUE, val |-> PyAtom("{}"), err |-> NoError]
    ELSE IF Loads(blob.body).ok
        THEN [ok |-> TRUE, val |-> Loads(blob.body).val, err |-> NoError]
    ELSE [ok |-> FALSE, val |-> PyAtom("null"),
          err |-> Raised("Exception", <<"Invalid JSON in S3 file: ", "JSONDecodeError">>)]

\* json.dumps(data) -> put_object: the object after the call.  S3 replaces an
\* object whole or not at all.
PutObject(blob, data, fault) == IF fault = "none" THEN Object(Dumps(data)) ELSE blob

\* S3Service.write_json_file: the error it raises, NoError when it returns.
WriteJsonFile(fault) ==
    IF fault = "none" THEN NoError
    ELSE IF fault = "AccessDenied"
        THEN Raised("Exception", <<"Failed to write file to S3: ", "AccessDenied">>)
    ELSE Raised("EndpointConnectionError", <<"EndpointConnectionError">>)

\* ------------------------------------------------------------- append
\* Variants of AppendItem: the item put first; a non-list value dropped; an
\* empty value wrapped; an equal record not appended again.
AppendItemFront(data, item) ==
    LET e1 == IF ~Truthy(data) THEN PyList(<<>>) ELSE data
        e2 == IF ~IsList(e1) THEN PyList(<<e1.a>>) ELSE e1
    IN  PyList(<<item>> \o e2.elems)

AppendItemDropsValue(data, item) ==
    LET e1 == IF ~Truthy(data) \/ ~IsList(data) THEN PyList(<<>>) ELSE data
    IN  PyList(Append(e1.elems, item))

AppendItemWrapsEmpty(data, item) ==
    LET e2 == IF ~IsList(data) THEN PyList(<<data.a>>) ELSE data
    IN  PyList(Append(e2.elems, item))

AppendItemDedup(data, item) ==
    LET e1 == IF ~Truthy(data) THEN PyList(<<>>) ELSE data
        e2 == IF ~IsList(e1) THEN PyList(<<e1.a>>) ELSE e1
    IN  IF \E i \in 1..Len(e2.elems) : e2.elems[i] = item
        THEN e2
        ELSE PyList(Append(e2.elems, item))

\* append_to_json_array between the read and the write: existing_data after
\*   if not existing_data: existing_data = []
\*   if not isinstance(existing_data, list): existing_data = [existing_data]
\*   existing_data.append(new_item)
AppendItem(data, item) ==
    LET e1 == IF ~Truthy(data) THEN PyList(<<>>) ELSE data
        e2 == IF ~IsList(e1) THEN PyList(<<e1.a>>) ELSE e1
    IN  PyList(Append(e2.elems, item))

\* Variant of AppendError: the caught error raised again as it is.
AppendErrorReraised(err) == err

\* except Exception as error: raise Exception(f"Failed to append to JSON file: {error}")
AppendError(err) == Raised("Exception", <<"Failed to append to JSON file: ">> \o err.msg)

\* Variant of ReadRaised: the read's error is swallowed.
ReadRaisedIgnored(r) == FALSE

\* Whether the read inside append_to_json_array raised.
ReadRaised(r) == ~r.ok

\* ------------------------------------------------------------- state
SUBSCRIBER_INFO_FILE_KEY == "subscribers"
UTILITIES_FILE_KEY == "utilities"
Keys == {SUBSCRIBER_INFO_FILE_KEY, UTILITIES_FILE_KEY}

VARIABLES
    store,          \* the bucket: key -> object
    ver,            \* number of completed put_object calls on the subscriber key
    calls,          \* number of requests received so far
    pc,             \* handler -> "idle", "read", "write", "done"
    new_item,       \* handler -> the record of its append
    content,        \* handler -> the object its get_object returned
    existing_data,  \* handler -> its local list, the item appended
    readOutcome,    \* handler -> "none", "ok", "raised": how its read ended
    puts,           \* handler -> put_object calls it has issued in this request
    gver,           \* handler -> ver when its get_object ran
    pver,           \* handler -> ver after its put_object succeeded, 0 if none
    gets,           \* handler -> get_object calls it has issued in this request
    cause,          \* handler -> the error read_json_file or write_json_file raised
    raised,         \* handler -> the error append_to_json_array raised to its caller
    response,       \* handler -> the HTTP answer of its request
    op,             \* handler -> the endpoint of its request
    cache,          \* server process -> the state of its utility_service
    cleared,        \* server process -> the cache state its last clear found,
                    \*   "no" once a lookup has started after that clear
    zip_code,       \* handler -> the zip code of its lookup, as received
    loads,          \* handler -> get_object calls of its lookup
    afterClear,     \* handler -> `cleared` of its process when its lookup began
    loadFault,      \* handler -> the fault S3 answered its load with
    full_address,   \* handler -> the query string of its validation
    geo             \* handler -> what validate_address returned or raised

sharedVars == <<store, calls, pc, op, response, readOutcome, content>>
logVars == <<ver, new_item, existing_data, puts, gver, pver, gets, cause, raised>>
cacheVars == <<cache, cleared, zip_code, loads, afterClear, loadFault>>
geoVars == <<full_address, geo>>
vars == <<sharedVars, logVars, cacheVars, geoVars>>

\* UtilityCompany(name, zipCode); no body on an error or on other endpoints.
NoBody == [name |-> "", zipCode |-> <<>>]
NoResponse == [status |-> 0, success |-> FALSE, detail |-> <<>>, body |-> NoBody]
\* SubmissionResponse(success=True, ...)
Success == [status |-> 200, success |-> TRUE, detail |-> <<>>, body |-> NoBody]
\* Variant of ServerError: the failure answered as a success.
ServerErrorAsSuccess(prefix, err) == Success

\* HTTPException(status_code=500, detail=f"{prefix}{error}")
ServerError(prefix, err) ==
    [status |-> 500, success |-> FALSE, detail |-> <<prefix>> \o err.msg, body |-> NoBody]

\* A handler that has started and not answered holds its process's event loop:
\* boto3's get_object and put_object are blocking calls, the coroutine never
\* yields to the loop between them.
Running(h) == pc[h] \in {"read", "write", "load"}
LoopFree(h) == \A g \in Handlers \ {h} : WorkerOf(g) = WorkerOf(h) => ~Running(g)

\* What the subscriber key may hold before the first request.
InitialLogs ==
    {Absent,
     Object(<<"[", "{r1}">>),
     Object(<<"{}">>), Object(<<"{r1}">>), Object(<<"0">>), Object(<<"\"s\"">>),
     Object(<<"[", "]">>), Object(<<"[", "{r1}", "]">>),
     Object(<<"[", "{r2}", ",", "{r1}", "]">>)}

InitLog ==
    /\ ver = 0
    /\ pc = [h \in Handlers |-> "idle"]
    /\ new_item = [h \in Handlers |-> "{r1}"]
    /\ content = [h \in Handlers |-> Absent]
    /\ existing_data = [h \in Handlers |-> PyList(<<>>)]
    /\ readOutcome = [h \in Handlers |-> "none"]
    /\ puts = [h \in Handlers |-> 0]
    /\ gver = [h \in Handlers |-> 0]
    /\ pver = [h \in Handlers |-> 0]
    /\ gets = [h \in Handlers |-> 0]
    /\ cause = [h \in Handlers |-> NoError]
    /\ raised = [h \in Handlers |-> NoError]
    /\ response = [h \in Handlers |-> NoResponse]
    /\ op = [h \in Handlers |-> "none"]

\* UtilityService(...) at import: nothing loaded.
Empty == [state |-> "Empty", map |-> {}]
Populated(m) == [state |-> "Populated", map |-> m]

InitCache ==
    /\ cache = [k \in Workers |-> Empty]
    /\ cleared = [k \in Workers |-> "no"]
    /\ zip_code = [h \in Handlers |-> <<>>]
    /\ loads = [h \in Handlers |-> 0]
    /\ afterClear = [h \in Handlers |-> "no"]
    /\ loadFault = [h \in Handlers |-> "none"]

\* Coordinates(latitude, longitude); ordinates are whole degrees here.
Coordinates(lat, lon) == [latitude |-> lat, longitude |-> lon]

\* GeocodingApiResponse(matchedAddress, coordinates, isValid)
GeocodingApiResponse(addr, coords, valid) ==
    [matchedAddress |-> addr, coordinates |-> coords, isValid |-> valid]

NoResult == GeocodingApiResponse(<<>>, Coordinates(0, 0), FALSE)
NoGeo == [ok |-> FALSE, res |-> NoResult, err |-> NoError]

InitGeo ==
    /\ full_address = [h \in Handlers |-> <<>>]
    /\ geo = [h \in Handlers |-> NoGeo]

Init ==
    /\ store \in {[k \in Keys |-> IF k = SUBSCRIBER_INFO_FILE_KEY THEN b ELSE Absent] :
                    b \in InitialLogs}
    /\ calls = 0
    /\ InitLog
    /\ InitCache
    /\ InitGeo

\* submit_subscriber is entered: the record is built from the request.
Submit(h, item) ==
    /\ pc[h] \in {"idle", "done"}
    /\ calls < MaxCalls
    /\ LoopFree(h)
    /\ calls' = calls + 1
    /\ pc' = [pc EXCEPT ![h] = "read"]
    /\ new_item' = [new_item EXCEPT ![h] = item]
    /\ content' = [content EXCEPT ![h] = Absent]
    /\ existing_data' = [existing_data EXCEPT ![h] = PyList(<<>>)]
    /\ readOutcome' = [readOutcome EXCEPT ![h] = "none"]
    /\ puts' = [puts EXCEPT ![h] = 0]
    /\ gver' = [gver EXCEPT ![h] = 0]
    /\ pver' = [pver EXCEPT ![h] = 0]
    /\ gets' = [gets EXCEPT ![h] = 0]
    /\ cause' = [cause EXCEPT ![h] = NoError]
    /\ raised' = [raised EXCEPT ![h] = NoError]
    /\ response' = [response EXCEPT ![h] = NoResponse]
    /\ op' = [op EXCEPT ![h] = "submit"]
    /\ UNCHANGED <<store, ver, cacheVars, geoVars>>

\* append_to_json_array up to the write: read_json_file, then the local update.
\* When the read raises, the error is wrapped and submit_subscriber answers 500.
Read(h, fault) ==
    /\ pc[h] = "read"
    /\ LET r == ReadJsonFile(store[SUBSCRIBER_INFO_FILE_KEY], fault) IN
       /\ content' = [content EXCEPT ![h] = IF fault = "none"
                                              THEN store[SUBSCRIBER_INFO_FILE_KEY]
                                              ELSE Absent]
       /\ gver' = [gver EXCEPT ![h] = ver]
       /\ gets' = [gets EXCEPT ![h] = @ + 1]
       /\ cause' = [cause EXCEPT ![h] = r.err]
       /\ readOutcome' = [readOutcome EXCEPT ![h] = IF r.ok THEN "ok" ELSE "raised"]
       /\ IF ReadRaised(r)
            THEN /\ pc' = [pc EXCEPT ![h] = "done"]
                 /\ raised' = [raised EXCEPT ![h] = AppendError(r.err)]
                 /\ response' = [response EXCEPT ![h] =
                        ServerError("Failed to submit information: ", AppendError(r.err))]
                 /\ UNCHANGED existing_data
            ELSE /\ pc' = [pc EXCEPT ![h] = "write"]
                 /\ existing_data' = [existing_data EXCEPT ![h] = AppendItem(r.val, new_item[h])]
                 /\ UNCHANGED <<response, raised>>
    /\ UNCHANGED <<store, ver, calls, op, new_item, puts, pver, cacheVars, geoVars>>

\* Variants of WriteData: the list rebuilt from a fresh read at the write; the
\* item written alone.
WriteDataReread(h) ==
    AppendItem(ReadJsonFile(store[SUBSCRIBER_INFO_FILE_KEY], "none").val, new_item[h])

WriteDataItemOnly(h) == PyAtom(new_item[h])

\* What append_to_json_array hands to write_json_file.
WriteData(h) == existing_data[h]

\* append_to_json_array from the write on: write_json_file, then the answer of
\* submit_subscriber.
Write(h, fault) ==
    /\ pc[h] = "write"
    /\ LET err == WriteJsonFile(fault) IN
       /\ store' = [store EXCEPT ![SUBSCRIBER_INFO_FILE_KEY] = PutObject(@, WriteData(h), fault)]
       /\ puts' = [puts EXCEPT ![h] = @ + 1]
       /\ ver' = IF fault = "none" THEN ver + 1 ELSE ver
       /\ pver' = [pver EXCEPT ![h] = IF fault = "none" THEN ver + 1 ELSE 0]
       /\ cause' = [cause EXCEPT ![h] = err]
       /\ raised' = [raised EXCEPT ![h] = IF err = NoError THEN NoError ELSE AppendError(err)]
       /\ response' = [response EXCEPT ![h] =
              IF err = NoError THEN Success
              ELSE ServerError("Failed to submit information: ", AppendError(err))]
    /\ pc' = [pc EXCEPT ![h] = "done"]
    /\ UNCHANGED <<calls, op, new_item, content, existing_data, readOutcome, gver, gets,
                   cacheVars, geoVars>>

Next ==
    \E h \in Handlers :
        \/ \E item \in Items : Submit(h, item)
        \/ \E fault \in Faults : Read(h, fault)
        \/ \E fault \in Faults : Write(h, fault)

Spec == Init /\ [][Next]_vars

\* ------------------------------------------------------------- cache
\* Zip codes are sequences of characters.
Zip90210 == <<"9", "0", "2", "1", "0">>
Zip10001 == <<"1", "0", "0", "0", "1">>
ZipInputs ==
    {Zip90210 \o <<"-", "1", "2", "3", "4">>,
     <<"1", "0", " ", "0", "0", "1">>}

\* The zip -> record entries of a decoded utilities object; a value that is
\* not a mapping (a list, a scalar) is taken as the empty mapping.
UtilityEntries(a) ==
    IF a = "{u1}" THEN {[zip |-> Zip90210, name |-> "SoCal Power"]}
    ELSE IF a = "{u2}" THEN {[zip |-> Zip90210, name |-> "Pacific Grid"],
                             [zip |-> Zip10001, name |-> "ConEd"],
                             [zip |-> <<"9", "0", "2", "1">>, name |-> "Valley Electric"]}
    ELSE {}

\* Variant of MappingOf: a mapping of several entries is stored short of one.
MappingOfPartial(val) ==
    LET m == IF IsList(val) THEN {} ELSE UtilityEntries(val.a)
    IN  IF Cardinality(m) > 1 THEN m \ {CHOOSE e \in m : TRUE} ELSE m

\* The mapping a load keeps of the decoded utilities value.
MappingOf(val) == IF IsList(val) THEN {} ELSE UtilityEntries(val.a)

\* Strip hyphens and spaces, keep the first 5 characters.
NormalizeZip(z) ==
    LET stripped == SelectSeq(z, LAMBDA c : c \notin {"-", " "})
    IN  SubSeq(stripped, 1, IF Len(stripped) < 5 THEN Len(stripped) ELSE 5)

UnknownUtility(z) == [name |-> "Unknown Utility Company", zipCode |-> z]

\* The record of the mapping under the normalized zip, or the sentinel.
LookupIn(m, z) ==
    IF \E e \in m : e.zip = z
    THEN [name |-> (CHOOSE e \in m : e.zip = z).name, zipCode |-> z]
    ELSE UnknownUtility(z)

\* Variant of clear_cache: the state is reset and the mapping kept.
clear_cache_keeps_map(c) == [state |-> "Empty", map |-> c.map]

\* UtilityService.clear_cache
clear_cache(c) == Empty

\* Variant of Hit: the cache never answers.
HitNever(c) == FALSE

\* A populated cache answers without a load.
Hit(c) == c.state = "Populated"

\* Variant of ClearedCache: the handler answers without clearing.
ClearedCacheSkipped(c) == c

\* clear_utility_cache: the cache after `utility_service.clear_cache()`.
ClearedCache(c) == clear_cache(c)

\* return utility_company (response_model=UtilityCompany)
Found(rec) == [status |-> 200, success |-> TRUE, detail |-> <<>>, body |-> rec]

\* What the utilities key may hold.
UtilityObjects ==
    {Absent, Object(<<"[", "{u1}">>), Object(<<"{u1}">>), Object(<<"{u2}">>)}

InitCacheSpec ==
    /\ store \in {[k \in Keys |-> IF k = UTILITIES_FILE_KEY THEN b ELSE Absent] :
                    b \in UtilityObjects}
    /\ calls = 0
    /\ InitLog
    /\ InitCache
    /\ InitGeo

\* get_utility_company is entered: the zip is normalized and a populated cache
\* answers at once; an empty one goes on to the load.
Lookup(h, z) ==
    /\ pc[h] \in {"idle", "done"}
    /\ calls < MaxRequests
    /\ LoopFree(h)
    /\ calls' = calls + 1
    /\ op' = [op EXCEPT ![h] = "lookup"]
    /\ zip_code' = [zip_code EXCEPT ![h] = z]
    /\ loads' = [loads EXCEPT ![h] = 0]
    /\ loadFault' = [loadFault EXCEPT ![h] = "none"]
    /\ afterClear' = [afterClear EXCEPT ![h] = cleared[WorkerOf(h)]]
    /\ cleared' = [cleared EXCEPT ![WorkerOf(h)] = "no"]
    /\ IF Hit(cache[WorkerOf(h)])
         THEN /\ pc' = [pc EXCEPT ![h] = "done"]
              /\ response' = [response EXCEPT ![h] =
                     Found(LookupIn(cache[WorkerOf(h)].map, NormalizeZip(z)))]
         ELSE /\ pc' = [pc EXCEPT ![h] = "load"]
              /\ response' = [response EXCEPT ![h] = NoResponse]
    /\ UNCHANGED <<store, cache, readOutcome, content, logVars, geoVars>>

\* The load of an empty cache and the answer: read_json_file of the utilities
\* key; when it raises the cache stays empty and get_utility_company answers
\* 500, else the whole mapping is stored and looked up.
Load(h, fault) ==
    /\ pc[h] = "load"
    /\ LET r == ReadJsonFile(store[UTILITIES_FILE_KEY], fault) IN
       /\ loads' = [loads EXCEPT ![h] = @ + 1]
       /\ loadFault' = [loadFault EXCEPT ![h] = fault]
       /\ IF r.ok
            THEN /\ cache' = [cache EXCEPT ![WorkerOf(h)] = Populated(MappingOf(r.val))]
                 /\ response' = [response EXCEPT ![h] =
                        Found(LookupIn(MappingOf(r.val), NormalizeZip(zip_code[h])))]
            ELSE /\ cache' = cache
                 /\ response' = [response EXCEPT ![h] =
                        ServerError("Failed to retrieve utility company: ", r.err)]
    /\ pc' = [pc EXCEPT ![h] = "done"]
    /\ UNCHANGED <<store, calls, op, cleared, zip_code, afterClear, readOutcome, content,
                   logVars, geoVars>>

\* clear_utility_cache: one step, no I/O.
Clear(h) ==
    /\ pc[h] \in {"idle", "done"}
    /\ calls < MaxRequests
    /\ LoopFree(h)
    /\ calls' = calls + 1
    /\ op' = [op EXCEPT ![h] = "clear"]
    /\ cache' = [cache EXCEPT ![WorkerOf(h)] = ClearedCache(@)]
    /\ cleared' = [cleared EXCEPT ![WorkerOf(h)] = cache[WorkerOf(h)].state]
    /\ pc' = [pc EXCEPT ![h] = "done"]
    /\ response' = [response EXCEPT ![h] = Success]
    /\ zip_code' = [zip_code EXCEPT ![h] = <<>>]
    /\ loads' = [loads EXCEPT ![h] = 0]
    /\ loadFault' = [loadFault EXCEPT ![h] = "none"]
    /\ afterClear' = [afterClear EXCEPT ![h] = "no"]
    /\ UNCHANGED <<store, readOutcome, content, logVars, geoVars>>

\* An operator replaces the utilities object in the bucket.
UpdateUtilities(b) ==
    /\ b /= store[UTILITIES_FILE_KEY]
    /\ store' = [store EXCEPT ![UTILITIES_FILE_KEY] = b]
    /\ UNCHANGED <<calls, pc, op, response, readOutcome, content, logVars, cacheVars, geoVars>>

NextCache ==
    \/ \E h \in Handlers :
        \/ \E z \in ZipInputs : Lookup(h, z)
        \/ \E fault \in Faults : Load(h, fault)
        \/ Clear(h)
    \/ \E b \in UtilityObjects : UpdateUtilities(b)

SpecCache == InitCacheSpec /\ [][NextCache]_vars

\* ------------------------------------------------------------- claims
LogObject == store[SUBSCRIBER_INFO_FILE_KEY]

\* What the next get of the subscriber key returns, in this state and the next.
NextGet == ReadJsonFile(store[SUBSCRIBER_INFO_FILE_KEY], "none")
NextGetAfter == ReadJsonFile(store'[SUBSCRIBER_INFO_FILE_KEY], "none")

\* The step on which handler h's put succeeds and its append reports success.
PutOkStep(h) == pc[h] = "write" /\ pc'[h] = "done" /\ response'[h].success

\* No put has changed the key since h's get.
Undisturbed(h) == gver[h] = ver

Succeeded(h) == pc[h] = "done" /\ response[h].success
Failed(h) == pc[h] = "done" /\ response[h].status = 500

\* The records a log object holds, as the writer's steps 2 and 3 see them.
PriorElems(blob) ==
    LET r == ReadJsonFile(blob, "none") IN
    IF IsList(r.val) THEN r.val.elems
    ELSE IF r.val.a \in FalsyAtoms THEN <<>>
    ELSE <<r.val.a>>

JsonObjects == Items \cup {"{}"}

\* C1: an append that no other put overlaps, on a key holding an array L,
\* leaves the key holding L followed by the item: the next get returns every
\* earlier record at its position and the item last.
C1_AppendKeepsLogAndAddsLast ==
    [][\A h \in Handlers :
        (PutOkStep(h) /\ Undisturbed(h) /\ NextGet.ok /\ IsList(NextGet.val))
            => /\ NextGetAfter.ok
               /\ NextGetAfter.val = PyList(Append(NextGet.val.elems, new_item[h]))]_vars

C1_Witness ==
    \E h \in Handlers :
        /\ Succeeded(h) /\ pver[h] = gver[h] + 1 /\ ver = pver[h]
        /\ content[h] = Object(<<"[", "{r2}", ",", "{r1}", "]">>)
        /\ NextGet.val = PyList(<<"{r2}", "{r1}", new_item[h]>>)

\* Appends h1 and h2 both read before either wrote, both succeeded, h2 wrote
\* last and nothing was written since.
RacePair(h1, h2) ==
    /\ h1 /= h2
    /\ Succeeded(h1) /\ Succeeded(h2)
    /\ gver[h1] < pver[h2] /\ gver[h2] < pver[h1]
    /\ pver[h1] < pver[h2] /\ ver = pver[h2]

Occurrences(s, x) == Cardinality({i \in 1..Len(s) : s[i] = x})

\* C2: when both gets of two concurrent appends precede both puts, both report
\* success and the log holds what the last writer read plus the last writer's
\* item only: the first writer's put added no entry to it.
C2_LastPutWins ==
    \A h1, h2 \in Handlers :
        RacePair(h1, h2)
            => /\ NextGet.ok
               /\ NextGet.val = PyList(Append(PriorElems(content[h2]), new_item[h2]))
               /\ Occurrences(NextGet.val.elems, new_item[h1]) =
                    Occurrences(PriorElems(content[h2]), new_item[h1])
                        + (IF new_item[h1] = new_item[h2] THEN 1 ELSE 0)

C2_Witness ==
    \E h1, h2 \in Handlers :
        /\ RacePair(h1, h2)
        /\ new_item[h1] /= new_item[h2]
        /\ \A i \in 1..Len(NextGet.val.elems) : NextGet.val.elems[i] /= new_item[h1]

\* C3 as stated: an undisturbed append on a key holding a JSON object, empty
\* or not, leaves [original, item].
C3_AnyObjectIsWrapped ==
    [][\A h \in Handlers :
        (PutOkStep(h) /\ Undisturbed(h) /\ NextGet.ok /\ LogObject.exists
            /\ ~IsList(NextGet.val) /\ NextGet.val.a \in JsonObjects)
            => NextGetAfter.val = PyList(<<NextGet.val.a, new_item[h]>>)]_vars

\* C3 amended: an undisturbed append on a key holding a non-array value leaves
\* [original, item] when the value is non-empty in Python's sense (an object
\* with a field, a non-zero number, a non-empty string, true), and [item] when
\* it is {}, 0, "", false or null.
C3_NonEmptyValueIsWrapped ==
    [][\A h \in Handlers :
        (PutOkStep(h) /\ Undisturbed(h) /\ NextGet.ok /\ LogObject.exists
            /\ ~IsList(NextGet.val))
            => /\ NextGetAfter.ok
               /\ NextGetAfter.val =
                    IF NextGet.val.a \in FalsyAtoms
                    THEN PyList(<<new_item[h]>>)
                    ELSE PyList(<<NextGet.val.a, new_item[h]>>)]_vars

C3_Witness ==
    \E h \in Handlers :
        /\ Succeeded(h) /\ pver[h] = gver[h] + 1 /\ ver = pver[h]
        /\ content[h] = Object(<<"{r1}">>)
        /\ NextGet.val = PyList(<<"{r1}", new_item[h]>>)

\* C4: an undisturbed append on a key that holds no object leaves the
\* one-element array [item].
C4_AbsentKeyGetsOneElement ==
    [][\A h \in Handlers :
        (PutOkStep(h) /\ Undisturbed(h) /\ ~LogObject.exists)
            => /\ store'[SUBSCRIBER_INFO_FILE_KEY].exists
               /\ NextGetAfter.ok
               /\ NextGetAfter.val = PyList(<<new_item[h]>>)]_vars

C4_Witness ==
    \E h \in Handlers :
        /\ Succeeded(h) /\ pver[h] = 1 /\ ver = 1
        /\ ~content[h].exists
        /\ LogObject = Object(<<"[", new_item[h], "]">>)

\* C5: a failing append changes nothing: after a failed get the call issues no
\* put, the step on which a call fails leaves the bucket as it was, and a call
\* issues at most one put (no compensating write).
C5_FailedAppendLeavesLog ==
    [][\A h \in Handlers :
        /\ (readOutcome'[h] = "raised" => (puts'[h] = 0 /\ Failed(h)'))
        /\ ((pc[h] /= "done" /\ Failed(h)') => store' = store)
        /\ puts'[h] <= 1]_vars

C5_Witness ==
    \E h, g \in Handlers :
        /\ Failed(h) /\ readOutcome[h] = "ok" /\ puts[h] = 1 /\ LogObject = content[h]
        /\ Failed(g) /\ readOutcome[g] = "raised" /\ puts[g] = 0

\* Append h2 read after append h1 wrote, each undisturbed, nothing written since.
InSequence(h1, h2) ==
    /\ h1 /= h2
    /\ Succeeded(h1) /\ Succeeded(h2)
    /\ pver[h1] = gver[h1] + 1 /\ gver[h2] = pver[h1]
    /\ pver[h2] = gver[h2] + 1 /\ ver = pver[h2]

\* C9: two successful appends of the same record, one after the other, grow
\* the log by two entries, both that record.
C9_SameRecordTwice ==
    \A h1, h2 \in Handlers :
        (InSequence(h1, h2) /\ new_item[h1] = new_item[h2])
            => /\ NextGet.ok
               /\ NextGet.val = PyList(PriorElems(content[h1])
                                        \o <<new_item[h1], new_item[h1]>>)

C9_Witness ==
    \E h1, h2 \in Handlers :
        /\ InSequence(h1, h2) /\ new_item[h1] = "{r1}" /\ new_item[h2] = "{r1}"
        /\ content[h1] = Object(<<"[", "{r1}", "]">>)
        /\ NextGet.val = PyList(<<"{r1}", "{r1}", "{r1}">>)

\* C10: once an append has succeeded the object under the key is a JSON array,
\* whatever it held before, and every later append keeps it one.
C10_LogIsArray ==
    ver >= 1 => (LogObject.exists /\ NextGet.ok /\ IsList(NextGet.val))

C10_Witness ==
    /\ ver = 2
    /\ \E h \in Handlers :
        /\ pver[h] = 1 /\ content[h].exists /\ ~IsList(ReadJsonFile(content[h], "none").val)
    /\ IsList(NextGet.val)

\* ------------------------------------------------------------- cache claims
UtilitiesObject == store[UTILITIES_FILE_KEY]

\* The store read of a load fails: S3 answers with a fault, or the object is
\* there and is not JSON.
StoreReadFails(fault) ==
    \/ fault /= "none"
    \/ UtilitiesObject.exists /\ ~Loads(UtilitiesObject.body).ok

\* The mapping the utilities object holds (none when it is absent).
StoredMapping ==
    IF UtilitiesObject.exists /\ Loads(UtilitiesObject.body).ok
    THEN MappingOf(Loads(UtilitiesObject.body).val)
    ELSE {}

FinishedLookup(h) == pc[h] = "done" /\ op[h] = "lookup"

\* C6: the first lookup a process starts after a clear has completed performs
\* exactly one load before it answers, whether the clear found the cache
\* empty or populated.
C6_OneLoadAfterClear ==
    \A h \in Handlers :
        (FinishedLookup(h) /\ afterClear[h] /= "no") => loads[h] = 1

C6_Witness ==
    \E h \in Handlers :
        /\ FinishedLookup(h) /\ afterClear[h] = "Populated"
        /\ loads[h] = 1 /\ response[h].status = 200

\* C7: a load whose store read fails leaves the cache Empty and the lookup
\* answers with the read's error; a cache goes from Empty to Populated only on
\* a load whose read succeeded, and then holds the stored mapping.
C7_FailedLoadLeavesEmpty ==
    [][/\ \A h \in Handlers : \A f \in Faults :
            (Load(h, f) /\ StoreReadFails(f))
                => /\ cache[WorkerOf(h)] = Empty
                   /\ cache'[WorkerOf(h)] = Empty
                   /\ response'[h].status = 500
                   /\ response'[h].detail[1] = "Failed to retrieve utility company: "
                   /\ response'[h].detail[Len(response'[h].detail)] =
                        (IF f /= "none" THEN f ELSE "JSONDecodeError")
       /\ \A k \in Workers :
            (cache[k].state = "Empty" /\ cache'[k].state = "Populated")
                => /\ \E h \in Handlers :
                        WorkerOf(h) = k /\ Load(h, "none") /\ ~StoreReadFails("none")
                   /\ cache'[k].map = StoredMapping]_vars

C7_Witness ==
    \E h \in Handlers :
        /\ FinishedLookup(h) /\ loads[h] = 1 /\ loadFault[h] = "AccessDenied"
        /\ response[h].status = 500
        /\ cache[WorkerOf(h)] = Empty

\* The answer `rec` is what mapping m holds under zip z, or the sentinel.
AnswersFrom(m, z, rec) ==
    IF \E e \in m : e.zip = z
    THEN \E e \in m : e.zip = z /\ rec.name = e.name
    ELSE rec.name = "Unknown Utility Company"

C11_ErrorUnchanged ==
    \A h \in Handlers : (op[h] = "submit" /\ Failed(h)) => raised[h] = cause[h]

\* C11 amended: the caller of a failed append receives a new generic Exception
\* whose message is "Failed to append to JSON file: " followed by the message
\* of the error the get or the put raised (the kind of that error is not
\* kept); the append has made one get and at most one put, none after a
\* failed get.
C11_ErrorWrappedNoRetry ==
    \A h \in Handlers :
        (op[h] = "submit" /\ Failed(h))
            => /\ cause[h] /= NoError
               /\ raised[h].kind = "Exception"
               /\ raised[h].msg = <<"Failed to append to JSON file: ">> \o cause[h].msg
               /\ gets[h] = 1
               /\ puts[h] = (IF readOutcome[h] = "raised" THEN 0 ELSE 1)

C11_Witness ==
    \E h, g \in Handlers :
        /\ op[h] = "submit" /\ Failed(h) /\ readOutcome[h] = "raised"
        /\ cause[h].kind = "EndpointConnectionError"
        /\ raised[h] = Raised("Exception",
                <<"Failed to append to JSON file: ", "EndpointConnectionError">>)
        /\ op[g] = "submit" /\ Failed(g) /\ puts[g] = 1
        /\ cause[g] = Raised("Exception", <<"Failed to write file to S3: ", "AccessDenied">>)

\* ------------------------------------------------------------- cache state claims
\* The mappings a single load can produce: the entries of one utilities
\* object, or none for an absent object or a value that is not a mapping.
CompleteMappings == {UtilityEntries(a) : a \in UtilityBlobs} \cup {{}}

C15_PopulatedAnswersWithoutGet ==
    [][/\ \A h \in Handlers : \A z \in ZipInputs :
            (Lookup(h, z) /\ cache[WorkerOf(h)].state = "Populated")
                => /\ pc'[h] = "done" /\ loads'[h] = 0
                   /\ response'[h] =
                        Found(LookupIn(cache[WorkerOf(h)].map, NormalizeZip(z)))
                   /\ store' = store /\ cache' = cache
       /\ \A k \in Workers :
            (cache[k].state = "Populated" /\ cache'[k] /= cache[k])
                => /\ cache'[k] = Empty
                   /\ \E h \in Handlers : WorkerOf(h) = k /\ Clear(h)]_vars

C15_Witness ==
    \E h \in Handlers :
        /\ FinishedLookup(h) /\ loads[h] = 0
        /\ cache[WorkerOf(h)].state = "Populated"
        /\ response[h].body = LookupIn(cache[WorkerOf(h)].map, NormalizeZip(zip_code[h]))
        /\ response[h].body /= LookupIn(StoredMapping, NormalizeZip(zip_code[h]))

\* C17: a clear answers success, makes no load, and leaves its process's
\* cache Empty whether it found it Empty or Populated, until the next lookup
\* of that process starts; a second clear finds and leaves it Empty.
C17_ClearLeavesEmpty ==
    /\ \A k \in Workers : cleared[k] /= "no" => cache[k] = Empty
    /\ \A h \in Handlers :
         op[h] = "clear" => (pc[h] = "done" /\ response[h] = Success /\ loads[h] = 0)

Digits == {"0", "1", "2", "3", "4", "5", "6", "7", "8", "9"}

\* C19: in every Populated cache every key of the mapping is a string of
\* exactly 5 digits.
C19_KeysAreFiveDigits ==
    \A k \in Workers :
        cache[k].state = "Populated"
            => \A e \in cache[k].map :
                  Len(e.zip) = 5 /\ \A i \in 1..Len(e.zip) : e.zip[i] \in Digits

C17_Witness ==
    \E h, g \in Handlers :
        /\ h /= g /\ WorkerOf(h) = WorkerOf(g)
        /\ op[h] = "clear" /\ op[g] = "clear"
        /\ cleared[WorkerOf(h)] = "Empty" /\ cache[WorkerOf(h)] = Empty
        /\ \E f \in Handlers : FinishedLookup(f) /\ loads[f] = 1 /\ response[f].status = 200

\* ------------------------------------------------------------- store client claims
\* C16: read_json_file returns the empty structure when the key holds no
\* object, the decoded value when it holds JSON, fails with the invalid-JSON
\* error when it holds something else and with a store error on every other
\* fault; it changes no object and no cache, and its outcome depends on the
\* stored object and the fault alone.
C16_GetOutcomes ==
    [][\A h \in Handlers : \A fault \in Faults :
        Read(h, fault) =>
            LET blob == store[SUBSCRIBER_INFO_FILE_KEY]
                r == ReadJsonFile(blob, fault)
            IN  /\ store' = store /\ cache' = cache
                /\ cause'[h] = r.err
                /\ readOutcome'[h] = (IF r.ok THEN "ok" ELSE "raised")
                /\ (fault = "none" /\ ~blob.exists)
                      => (r.ok /\ r.val = PyAtom("{}") /\ r.err = NoError)
                /\ (fault = "none" /\ blob.exists /\ Loads(blob.body).ok)
                      => (r.ok /\ Dumps(r.val) = blob.body /\ r.err = NoError)
                /\ (fault = "none" /\ blob.exists /\ ~Loads(blob.body).ok)
                      => (~r.ok /\ r.err.msg[1] = "Invalid JSON in S3 file: ")
                /\ fault /= "none"
                      => (~r.ok /\ r.err /= NoError
                            /\ r.err.msg[1] /= "Invalid JSON in S3 file: ")]_vars

C16_Witness ==
    \E h, g \in Handlers :
        /\ pc[h] = "done" /\ readOutcome[h] = "raised" /\ content[h].exists
        /\ cause[h] = Raised("Exception", <<"Invalid JSON in S3 file: ", "JSONDecodeError">>)
        /\ pc[g] = "done" /\ readOutcome[g] = "raised"
        /\ cause[g] = Raised("Exception", <<"Failed to read file from S3: ", "AccessDenied">>)
        /\ LogObject = content[h]

\* C18: while a handler waits on its object-store get or put, another handler
\* of the same process that has no request in progress can start one.
C18_OtherHandlerProceeds ==
    \A h, g \in Handlers :
        (/\ h /= g /\ WorkerOf(h) = WorkerOf(g)
         /\ pc[h] \in {"read", "write"}
         /\ pc[g] \in {"idle", "done"}
         /\ calls < MaxCalls)
            => ENABLED (\E item \in Items : Submit(g, item))

\* C20: submit_subscriber answers success only after the put of its append
\* succeeded; when the get or the put failed it answers 500 with the
\* failure's message in the detail, and not success.
C20_SuccessOnlyAfterPut ==
    \A h \in Handlers :
        (op[h] = "submit" /\ pc[h] = "done")
            => /\ response[h].success
                    => (readOutcome[h] = "ok" /\ puts[h] = 1 /\ pver[h] > 0
                        /\ cause[h] = NoError /\ response[h].status = 200)
               /\ (readOutcome[h] = "raised" \/ pver[h] = 0)
                    => /\ cause[h] /= NoError
                       /\ ~response[h].success /\ response[h].status = 500
                       /\ response[h].detail =
                            <<"Failed to submit information: ",
                              "Failed to append to JSON file: ">> \o cause[h].msg

C20_Witness ==
    \E h, g \in Handlers :
        /\ op[h] = "submit" /\ Succeeded(h) /\ pver[h] > 0
        /\ op[g] = "submit" /\ Failed(g) /\ puts[g] = 1 /\ pver[g] = 0
        /\ response[g].detail = <<"Failed to submit information: ",
                "Failed to append to JSON file: ", "Failed to write file to S3: ",
                "AccessDenied">>

\* ------------------------------------------------------------- geocoding
\* Address validation requests: address, city, state, zip_code.
Queries ==
    {[address |-> "123 Main St", city |-> "Springfield", state |-> "IL", zip_code |-> "62704"],
     [address |-> "1 Elm Rd", city |-> "Newark", state |-> "NJ", zip_code |-> "07102"]}

\* f"{address}, {city}, {state} {zip_code}"
FullAddress(q) == <<q.address, ", ", q.city, ", ", q.state, " ", q.zip_code>>

\* JSON leaves of a candidate: a number, a numeric string, another string,
\* null, or no such key.
Num(n) == [t |-> "num", n |-> n]
NumStr(n) == [t |-> "numstr", n |-> n]
BadStr == [t |-> "str", n |-> 0]
Null == [t |-> "null", n |-> 0]
Missing == [t |-> "missing", n |-> 0]

\* An element of addressMatches: its JSON shape, matchedAddress ("-" when the
\* key is missing), the shape of coordinates and its ordinates x and y.
Candidate(shape, addr, coords, x, y) ==
    [shape |-> shape, addr |-> addr, coords |-> coords, x |-> x, y |-> y]

Cand1 == Candidate("dict", "123 MAIN ST, SPRINGFIELD, IL, 62704", "dict", Num(-89), Num(39))
Cand2 == Candidate("dict", "1 ELM RD, NEWARK, NJ, 07102", "dict", Num(-74), Num(40))

\* A decoded response body: the shapes of the root, of "result" and of
\* "addressMatches", and the candidates when addressMatches is a list.
Payload(root, result, matches, cands) ==
    [root |-> root, result |-> result, matches |-> matches, cands |-> cands]

Matches(cands) == Payload("dict", "dict", "list", cands)

Payloads ==
    {Matches(<<Cand1>>), Matches(<<Cand2, Cand1>>), Matches(<<>>),
     Matches(<<Candidate("dict", "", "dict", Num(-89), Num(39))>>),
     Matches(<<Candidate("dict", "-", "dict", Num(-89), Num(39))>>),
     Matches(<<Candidate("dict", Cand1.addr, "missing", Missing, Missing)>>),
     Matches(<<Candidate("dict", Cand1.addr, "dict", NumStr(-89), NumStr(39))>>),
     Matches(<<Candidate("dict", Cand1.addr, "dict", Num(-89), BadStr)>>),
     Matches(<<Candidate("dict", Cand1.addr, "dict", Null, Num(39))>>),
     Matches(<<Candidate("dict", Cand1.addr, "null", Missing, Missing)>>),
     Matches(<<Candidate("str", "-", "missing", Missing, Missing)>>),
     Payload("dict", "dict", "missing", <<>>),
     Payload("dict", "dict", "num", <<>>),
     Payload("dict", "dict", "dict", <<>>),
     Payload("dict", "missing", "missing", <<>>),
     Payload("dict", "null", "missing", <<>>),
     Payload("list", "missing", "missing", <<>>)}

\* How the call to the geocoding service ends: a JSON body received with a
\* 2xx status, a body that is not JSON, an error status, or no response.
HttpOutcomes == {"ok", "NotJson", "HTTPStatusError", "ConnectError", "ReadTimeout"}
TransportFailures == {"ConnectError", "ReadTimeout"}

\* What response.json() can return for an outcome: a decoded body when a JSON
\* body was received, nothing to decode otherwise.
NoPayload == Payload("none", "none", "none", <<>>)
Bodies(outcome) == IF outcome = "ok" THEN Payloads ELSE {NoPayload}

\* float(coordinates_data.get(key, 0.0)): [ok, n]; ok = FALSE is a ValueError
\* or TypeError.
Float(v) ==
    IF v.t = "missing" THEN [ok |-> TRUE, n |-> 0]
    ELSE IF v.t \in {"num", "numstr"} THEN [ok |-> TRUE, n |-> v.n]
    ELSE [ok |-> FALSE, n |-> 0]

\* Variant of LatLon: the ordinates swapped.
LatLonSwapped(c) == Coordinates(c.x, c.y)

\* latitude = float(...get("y")), longitude = float(...get("x"))
LatLon(c) == Coordinates(c.y, c.x)

ParsedNone == [exc |-> "none", none |-> TRUE, addr |-> "", coords |-> Coordinates(0, 0)]
ParsedAttributeError ==
    [exc |-> "AttributeError", none |-> TRUE, addr |-> "", coords |-> Coordinates(0, 0)]

\* GeocodingService._parse_census_response: (matched_address, coordinates);
\* none = TRUE is matched_address None; exc names an exception the
\* except (KeyError, ValueError, TypeError) clause does not catch.
ParseCensusResponse(data) ==
    IF data.root /= "dict" THEN ParsedAttributeError                 \* data.get
    ELSE IF data.result \in {"null", "list"} THEN ParsedAttributeError  \* result.get
    ELSE IF data.result = "missing" \/ data.matches \in {"missing", "null"}
        THEN ParsedNone                                              \* not address_matches
    ELSE IF data.matches \in {"num", "dict"} THEN ParsedNone         \* [0]: TypeError, KeyError
    ELSE IF Len(data.cands) = 0 THEN ParsedNone
    ELSE LET best_match == data.cands[1] IN
        IF best_match.shape /= "dict" THEN ParsedAttributeError      \* best_match.get
        ELSE IF best_match.coords \in {"null", "list"} THEN ParsedAttributeError
        ELSE LET c == IF best_match.coords = "missing"
                      THEN [x |-> Missing, y |-> Missing]
                      ELSE [x |-> best_match.x, y |-> best_match.y]
             IN IF ~Float(c.y).ok \/ ~Float(c.x).ok THEN ParsedNone
                ELSE [exc |-> "none", none |-> FALSE,
                      addr |-> IF best_match.addr = "-" THEN "" ELSE best_match.addr,
                      coords |-> LatLon([x |-> Float(c.x).n, y |-> Float(c.y).n])]

\* GeocodingService.validate_address once the call has ended: [ok, res, err].
ValidateAddress(query, outcome, data) ==
    IF outcome \in TransportFailures \cup {"HTTPStatusError"}
        THEN [ok |-> FALSE, res |-> NoResult,
              err |-> Raised("Exception", <<"Failed to validate address: ", outcome>>)]
    ELSE IF outcome = "NotJson"
        THEN [ok |-> FALSE, res |-> NoResult,
              err |-> Raised("Exception", <<"Address validation failed: ", "JSONDecodeError">>)]
    ELSE LET parsed == ParseCensusResponse(data) IN
        IF parsed.exc /= "none"
            THEN [ok |-> FALSE, res |-> NoResult,
                  err |-> Raised("Exception", <<"Address validation failed: ", parsed.exc>>)]
        ELSE IF parsed.none \/ parsed.addr = ""
            THEN [ok |-> TRUE, err |-> NoError,
                  res |-> GeocodingApiResponse(FullAddress(query), Coordinates(0, 0), FALSE)]
        ELSE [ok |-> TRUE, err |-> NoError,
              res |-> GeocodingApiResponse(<<parsed.addr>>, parsed.coords, TRUE)]

InitGeoSpec ==
    /\ store = [k \in Keys |-> Absent]
    /\ calls = 0
    /\ InitLog
    /\ InitCache
    /\ InitGeo

\* validate_address (the endpoint) is entered; the handler builds the query
\* and waits for the geocoding service at `await client.get`.
Validate(h, q) ==
    /\ pc[h] \in {"idle", "done"}
    /\ calls < MaxValidations
    /\ LoopFree(h)
    /\ calls' = calls + 1
    /\ op' = [op EXCEPT ![h] = "validate"]
    /\ pc' = [pc EXCEPT ![h] = "call"]
    /\ full_address' = [full_address EXCEPT ![h] = FullAddress(q)]
    /\ geo' = [geo EXCEPT ![h] = NoGeo]
    /\ response' = [response EXCEPT ![h] = NoResponse]
    /\ UNCHANGED <<store, readOutcome, content, logVars, cacheVars>>

\* The call ends and the handler answers: the result, or HTTPException 500.
GeoRespond(h, q, outcome, data) ==
    /\ pc[h] = "call"
    /\ full_address[h] = FullAddress(q)
    /\ LET r == ValidateAddress(q, outcome, data) IN
       /\ geo' = [geo EXCEPT ![h] = r]
       /\ response' = [response EXCEPT ![h] =
              IF r.ok THEN Success
              ELSE ServerError("Address validation failed: ", r.err)]
    /\ pc' = [pc EXCEPT ![h] = "done"]
    /\ UNCHANGED <<store, calls, op, readOutcome, content, full_address, logVars, cacheVars>>

NextGeo ==
    \E h \in Handlers :
        \/ \E q \in Queries : Validate(h, q)
        \/ \E q \in Queries : \E o \in HttpOutcomes : \E d \in Bodies(o) :
                GeoRespond(h, q, o, d)

SpecGeo == InitGeoSpec /\ [][NextGeo]_vars

\* ------------------------------------------------------------- geocoding claims
\* The result for "no match": the query string, (0,0), isValid = false.
NoMatch(q) == GeocodingApiResponse(FullAddress(q), Coordinates(0, 0), FALSE)


\* A candidate as the geocoding service's contract has it: an object with a
\* matched address string and a pair of numeric ordinates.
WellFormed(c) ==
    /\ c.shape = "dict" /\ c.addr /= "-" /\ c.coords = "dict"
    /\ c.x.t = "num" /\ c.y.t = "num"

\* The step in which handler h's call to the geocoding service ends.
Answered(h) == pc[h] = "call" /\ pc'[h] = "done"

Candidates(d) == d.root = "dict" /\ d.result = "dict" /\ d.matches = "list"

\* C12: validateAddress fails when the call fails at transport level; for
\* every JSON response received, whatever its payload, it returns a result and
\* not an error, and a payload that is not an object holding a result object
\* with a list of matches gives the no-match result.
C12_OnlyTransportFails ==
    [][\A h \in Handlers : Answered(h) =>
        \A q \in Queries : \A o \in HttpOutcomes : \A d \in Bodies(o) :
        GeoRespond(h, q, o, d)
            => /\ (o \in TransportFailures => ~geo'[h].ok)
               /\ (o = "ok" => geo'[h].ok)
               /\ ((o = "ok" /\ ~Candidates(d)) => geo'[h].res = NoMatch(q))]_vars

====
